---- MODULE Spec2Model ----
(***************************************************************************)
(* Model of the Arduino bridge of auscultation-master:                     *)
(*   - the command encoder of supabase/functions/arduino-bridge/index.ts   *)
(*     (calculateChecksum, formatCommand), and                             *)
(*   - the serial transport of src/hooks/useArduinoSerial.ts               *)
(*     (connect, readLoop, disconnect, sendBytes, sendCommand, addLog).    *)
(* A JavaScript string is the sequence of its UTF-16 code units; an        *)
(* ArduinoCommand is a function whose domain holds the properties that are *)
(* present (an absent property reads as undefined).                        *)
(***************************************************************************)
EXTENDS Integers, Sequences, FiniteSets, TLC

(***************************************************************************)
(* Bounds of the model                                                     *)
(***************************************************************************)
\* caller-supplied volumes range over (0 - VolSpan) .. (10 + VolSpan)
VolSpan == 5
\* longest string handed to calculateChecksum on its own
MaxLen == 3
\* serial ports the user can choose among
NumPorts == 2
\* connect() calls that can be in flight together
MaxConnects == 2
\* log entries the transport model follows before clearLogs is needed
MaxLogs == 3
\* longest carry-over the transport model follows
MaxBuffer == 1
\* sendBytes() and sendCommand() calls that can be in flight together
MaxSends == 1
\* sendBytes() and sendCommand() calls in flight together where sends overlap
MaxOverlap == 2
\* longest byte stream fed to the read loop on its own, cut in every way
MaxStream == 4
\* longest byte stream of a connection that another connection follows
MaxLeftover == 2
\* log insertions made on the log on its own
MaxInsertions == 150

(***************************************************************************)
(* Program constants                                                       *)
(***************************************************************************)
\* prev.slice(-99): the entries kept when one is added
LOG_KEEP == 99

(***************************************************************************)
(* Strings used by the encoder, as code units                              *)
(***************************************************************************)
STX == 2
ETX == 3
Colon == 58
\* "UNK"
UNK == <<85, 78, 75>>
\* "lung_normal"
LungNormal == <<108, 117, 110, 103, 95, 110, 111, 114, 109, 97, 108>>
\* String(Object), what a template literal makes of the function found
\* under the inherited key "constructor":
\* "function Object() { [native code] }"
NativeObjectText ==
    <<102, 117, 110, 99, 116, 105, 111, 110, 32, 79, 98, 106, 101, 99, 116,
      40, 41, 32, 123, 32, 91, 110, 97, 116, 105, 118, 101, 32, 99, 111, 100,
      101, 93, 32, 125>>

\* const SYSTEM_CODES: Record<string, string>
SYSTEM_CODES ==
    "lung" :> <<76>> @@ "heart" :> <<72>> @@ "bowel" :> <<66>>

\* const LOCATION_CODES: Record<string, string>
LOCATION_CODES ==
    "right-upper-anterior" :> <<82, 85, 65>> @@
    "right-middle-anterior" :> <<82, 77, 65>> @@
    "right-lower-anterior" :> <<82, 76, 65>> @@
    "left-upper-anterior" :> <<76, 85, 65>> @@
    "left-lower-anterior" :> <<76, 76, 65>> @@
    "right-upper-posterior" :> <<82, 85, 80>> @@
    "right-middle-posterior" :> <<82, 77, 80>> @@
    "right-lower-posterior" :> <<82, 76, 80>> @@
    "left-upper-posterior" :> <<76, 85, 80>> @@
    "left-middle-posterior" :> <<76, 77, 80>> @@
    "left-lower-posterior" :> <<76, 76, 80>> @@
    "aortic" :> <<65, 79, 82>> @@
    "pulmonic" :> <<80, 85, 76>> @@
    "erbs-point" :> <<69, 82, 66>> @@
    "tricuspid" :> <<84, 82, 73>> @@
    "mitral" :> <<77, 73, 84>> @@
    "ruq" :> <<82, 85, 81>> @@
    "luq" :> <<76, 85, 81>> @@
    "rlq" :> <<82, 76, 81>> @@
    "llq" :> <<76, 76, 81>> @@
    "periumbilical" :> <<80, 69, 82>>

\* Both tables are plain object literals: a key they do not own is looked
\* up on Object.prototype, where "constructor" finds the function Object.
InheritedKeys == {"constructor"}

\* table[key] || fallback, as text inside the template literal
LookupOr(table, key, fallback) ==
    IF key \in DOMAIN table THEN table[key]
    ELSE IF key \in InheritedKeys THEN NativeObjectText
    ELSE fallback

(***************************************************************************)
(* Commands                                                                *)
(***************************************************************************)
Has(command, field) == field \in DOMAIN command

\* command.system || '' ,  command.location || ''
StringOrEmpty(command, field) ==
    IF Has(command, field) THEN command[field] ELSE ""

\* String.prototype.toUpperCase on one code unit, for the letters of the
\* input alphabet: ASCII a-z and Cyrillic U+0430..U+044F
UpperUnit(u) ==
    IF u \in 97..122 THEN u - 32
    ELSE IF u \in 1072..1103 THEN u - 32
    ELSE u

toUpperCase(s) == [i \in 1..Len(s) |-> UpperUnit(s[i])]

\* Number to decimal text, as a template literal prints an integer
RECURSIVE Digits(_)
Digits(n) ==
    IF n < 10 THEN <<48 + n>> ELSE Digits(n \div 10) \o <<48 + (n % 10)>>

NumberText(n) == IF n < 0 THEN <<45>> \o Digits(0 - n) ELSE Digits(n)

Max(a, b) == IF a >= b THEN a ELSE b
Min(a, b) == IF a <= b THEN a ELSE b

VolumeOr5Nullish(command) ==
    IF Has(command, "volume") THEN command.volume ELSE 5

\* command.volume || 5 : undefined and 0 are both falsy
VolumeOr5(command) ==
    IF Has(command, "volume") /\ command.volume # 0 THEN command.volume ELSE 5

ClampedVolumeNoCeiling(command) == Max(0, VolumeOr5(command))

\* Math.min(10, Math.max(0, command.volume || 5))
ClampedVolume(command) == Min(10, Max(0, VolumeOr5(command)))

\* command.soundCode?.toUpperCase() || 'UNK'
SoundCodeOf(command) ==
    IF Has(command, "soundCode") /\ command.soundCode # <<>>
    THEN toUpperCase(command.soundCode)
    ELSE UNK

\* case 'play': raw
PlayRaw(command) ==
    <<80, Colon>>
      \o LookupOr(SYSTEM_CODES, StringOrEmpty(command, "system"), <<85>>)
      \o <<Colon>> \o SoundCodeOf(command)
      \o <<Colon>>
      \o LookupOr(LOCATION_CODES, StringOrEmpty(command, "location"), UNK)
      \o <<Colon>> \o NumberText(ClampedVolume(command))

\* case 'volume': raw
VolumeRaw(command) == <<86, Colon>> \o NumberText(ClampedVolume(command))

ActionOf(command) ==
    IF Has(command, "action") THEN command.action ELSE "undefined"

\* a switch whose 'status' case is missing falls to the default
RawOfNoStatus(command) ==
    CASE Has(command, "action") /\ command.action = "play" -> PlayRaw(command)
      [] Has(command, "action") /\ command.action = "stop" -> <<83>>
      [] Has(command, "action") /\ command.action = "volume" -> VolumeRaw(command)
      [] OTHER -> <<78>>

\* switch (command.action): raw
RawOf(command) ==
    CASE Has(command, "action") /\ command.action = "play" -> PlayRaw(command)
      [] Has(command, "action") /\ command.action = "stop" -> <<83>>
      [] Has(command, "action") /\ command.action = "volume" -> VolumeRaw(command)
      [] Has(command, "action") /\ command.action = "status" -> <<81>>
      [] OTHER -> <<78>>

\* ${command.system}, ${command.location} in the description
FieldText(command, field) ==
    IF Has(command, field) THEN command[field] ELSE "undefined"

\* switch (command.action): description, as the parts of its template
DescriptionOf(command) ==
    CASE Has(command, "action") /\ command.action = "play" ->
           [text |-> "Play", system |-> FieldText(command, "system"),
            soundCode |-> SoundCodeOf(command),
            location |-> FieldText(command, "location"),
            volume |-> ClampedVolume(command)]
      [] Has(command, "action") /\ command.action = "stop" ->
           [text |-> "Stop all playback"]
      [] Has(command, "action") /\ command.action = "volume" ->
           [text |-> "Set volume to", volume |-> ClampedVolume(command)]
      [] Has(command, "action") /\ command.action = "status" ->
           [text |-> "Query device status"]
      [] OTHER -> [text |-> "No operation"]

\* for (let i = 0; i < data.length; i++) sum += data.charCodeAt(i)
RECURSIVE ChecksumLoop(_, _, _)
ChecksumLoop(data, i, sum) ==
    IF i < Len(data) THEN ChecksumLoop(data, i + 1, sum + data[i + 1]) ELSE sum

calculateChecksumMod255(data) == ChecksumLoop(data, 0, 0) % 255

calculateChecksum(data) == ChecksumLoop(data, 0, 0) % 256

\* for (let i = 0; i < raw.length; i++) bytes.push(raw.charCodeAt(i))
RECURSIVE PushUnits(_, _, _)
PushUnits(bytes, raw, i) ==
    IF i < Len(raw) THEN PushUnits(Append(bytes, raw[i + 1]), raw, i + 1)
    ELSE bytes

FrameBytesChecksumFirst(raw, checksum) ==
    Append(Append(PushUnits(<<STX>>, raw, 0), checksum), ETX)

\* bytes = [STX]; push each code unit of raw; push ETX; push checksum
FrameBytes(raw, checksum) ==
    Append(Append(PushUnits(<<STX>>, raw, 0), ETX), checksum)

formatCommand(command) ==
    LET raw == RawOf(command)
        checksum == calculateChecksum(raw)
    IN  [raw |-> raw,
         bytes |-> FrameBytes(raw, checksum),
         checksum |-> checksum,
         description |-> DescriptionOf(command)]

\* digit.toString(16), one hexadecimal digit
HexDigit(d) == IF d < 10 THEN 48 + d ELSE 87 + d

\* b.toString(16) for a non-negative integer
RECURSIVE ToString16(_)
ToString16(b) ==
    IF b < 16 THEN <<HexDigit(b)>>
    ELSE Append(ToString16(b \div 16), HexDigit(b % 16))

\* text.padStart(2, '0')
PadStart2(text) ==
    IF Len(text) = 0 THEN <<48, 48>>
    ELSE IF Len(text) = 1 THEN <<48>> \o text
    ELSE text

\* bytes.map(b => b.toString(16).padStart(2, '0')).join(' ')
RECURSIVE HexDump(_)
HexDump(bytes) ==
    IF bytes = <<>> THEN <<>>
    ELSE IF Len(bytes) = 1 THEN PadStart2(ToString16(bytes[1]))
    ELSE PadStart2(ToString16(bytes[1])) \o <<32>> \o HexDump(Tail(bytes))

\* !command.action : undefined and '' are both falsy
NoAction(command) == ~Has(command, "action") \/ command.action = ""

PlayFieldMissingButSound(command) ==
    \/ ~Has(command, "system") \/ command.system = ""
    \/ ~Has(command, "location") \/ command.location = ""

\* !command.system || !command.soundCode || !command.location
PlayFieldMissing(command) ==
    \/ ~Has(command, "system") \/ command.system = ""
    \/ ~Has(command, "soundCode") \/ command.soundCode = <<>>
    \/ ~Has(command, "location") \/ command.location = ""

\* serve(async (req) => ...): the response to a POST whose body is command
Serve(command) ==
    IF NoAction(command)
    THEN [status |-> 400, error |-> "Missing required field: action"]
    ELSE IF command.action = "play" /\ PlayFieldMissing(command)
    THEN [status |-> 400,
          error |-> "Play action requires system, soundCode, and location"]
    ELSE [status |-> 200, success |-> TRUE, command |-> formatCommand(command),
          hex |-> HexDump(formatCommand(command).bytes)]

(***************************************************************************)
(* Inputs of the encoder                                                   *)
(***************************************************************************)
\* an optional property: <<>> (absent) or <<value>>
Property(name, opt) == [k \in (IF opt = <<>> THEN {} ELSE {name}) |-> opt[1]]

MkCommand(action, system, soundCode, location, volume) ==
    Property("action", action) @@ Property("system", system)
      @@ Property("soundCode", soundCode) @@ Property("location", location)
      @@ Property("volume", volume)

Optional(S) == {<<>>} \cup {<<x>> : x \in S}

Actions == {"play", "stop", "volume", "status", "reset", ""}
Systems == {"lung", "heart", "bowel", "brain", "constructor", ""}
\* "", "lung_normal", "s1", "a:b", and the Cyrillic letter U+0436
SoundCodes == {<<>>, LungNormal, <<115, 49>>, <<97, 58, 98>>, <<1078>>}
Locations == {"right-upper-anterior", "mitral", "ruq", "elbow", "constructor", ""}
Volumes == (0 - VolSpan)..(10 + VolSpan)

Commands ==
    { MkCommand(a, s, sc, l, v) :
        a \in Optional(Actions), s \in Optional(Systems),
        sc \in Optional(SoundCodes), l \in Optional(Locations),
        v \in Optional(Volumes) }

\* code units of the strings handed to calculateChecksum on its own:
\* NUL, 'S', two Latin-1 units, and two units above 255
ChecksumUnits == {0, 83, 200, 255, 256, 1046}

RECURSIVE StringsUpTo(_)
StringsUpTo(n) ==
    IF n = 0 THEN {<<>>}
    ELSE LET shorter == StringsUpTo(n - 1)
         IN  shorter \cup {Append(s, u) : s \in shorter, u \in ChecksumUnits}

(***************************************************************************)
(* The serial transport: state                                             *)
(***************************************************************************)
VARIABLES
    call,           \* a pure function's call: its argument and, once made, its result
    isSupported,    \* useState: 'serial' in navigator, set on mount
    isConnected,    \* useState
    isConnecting,   \* useState
    deviceStatus,   \* useState<DeviceStatus>
    logs,           \* useState<string[]>
    portRef,        \* useRef: the port held, or NoPort
    readerRef,      \* useRef: the port whose reader is held, or NoPort
    writerRef,      \* useRef: the port whose writer is held, or NoPort
    portState,      \* each serial port: "closed", "opening" or "opened"
    readerLock,     \* the ports whose readable stream is locked by a reader
    writerLock,     \* the ports whose writable stream is locked by a writer
    readerErrored,  \* the ports whose locked readable stream has errored
    connectPc,      \* each connect() call: "idle", or the await it is suspended in
    connectPort,    \* each connect() call: the port requestPort gave it
    disconnectPc,   \* the disconnect() call: "idle", or the await it is suspended in
    disconnectOn,   \* the port of the object disconnect() is awaiting
    readLoops,      \* the ports whose readLoop is suspended in reader.read()
    buffer,         \* each readLoop's carry-over text
    sends,          \* each sendBytes()/sendCommand() call: where it is suspended
    written,        \* the writes the step taken last performed, in order
    last            \* the handler step taken last, and what it returned

transportVars ==
    <<isSupported, isConnected, isConnecting, deviceStatus, logs, portRef,
      readerRef, writerRef, portState, readerLock, writerLock, readerErrored,
      connectPc, connectPort, disconnectPc, disconnectOn, readLoops, buffer,
      sends, written, last>>

vars == <<call, transportVars>>

Ports == 1..NumPorts
NoPort == 0
\* the connect() calls followed, and the sendBytes()/sendCommand() calls
ConnectCalls == DOMAIN connectPc
SendCalls == DOMAIN sends

\* a sendBytes()/sendCommand() call that is not under way
IdleSend ==
    [pc |-> "idle", kind |-> "none", connected |-> FALSE, command |-> <<>>,
     bytes |-> <<>>, writer |-> NoPort, queued |-> FALSE]

\* no pure call is being looked at
NoCall == [fn |-> "none", returned |-> FALSE]

\* const [deviceStatus, setDeviceStatus] = useState<DeviceStatus>({...})
InitialDeviceStatus ==
    [connected |-> FALSE, portName |-> "null", lastResponse |-> <<>>,
     hasResponse |-> FALSE, lastCommandTime |-> "null"]

\* the hook after its mount effect, following the connect() calls connects
\* and the send calls sendCalls
TransportInitOf(connects, sendCalls) ==
    /\ isSupported \in BOOLEAN
    /\ isConnected = FALSE
    /\ isConnecting = FALSE
    /\ deviceStatus = InitialDeviceStatus
    /\ logs = <<>>
    /\ portRef = NoPort /\ readerRef = NoPort /\ writerRef = NoPort
    /\ portState = [p \in Ports |-> "closed"]
    /\ readerLock = {} /\ writerLock = {} /\ readerErrored = {}
    /\ connectPc = [c \in connects |-> "idle"]
    /\ connectPort = [c \in connects |-> NoPort]
    /\ disconnectPc = "idle" /\ disconnectOn = NoPort
    /\ readLoops = {} /\ buffer = [p \in Ports |-> <<>>]
    /\ sends = [s \in sendCalls |-> IdleSend]
    /\ written = <<>>
    /\ last = [op |-> "mount", ret |-> "none"]

TransportInit == TransportInitOf(1..MaxConnects, 1..MaxSends)

(***************************************************************************)
(* Diagnostics log                                                         *)
(***************************************************************************)
LastEntriesAll(entries, n) == entries

\* prev.slice(-99)
LastEntries(entries, n) ==
    IF Len(entries) <= n THEN entries
    ELSE SubSeq(entries, Len(entries) - n + 1, Len(entries))

\* setLogs(prev => [...prev.slice(-99), `[${timestamp}] ${message}`]);
\* an entry is its message text and the data printed in it
addLog(entries, message, data) ==
    Append(LastEntries(entries, LOG_KEEP), [message |-> message, data |-> data])

\* the model follows the entries of one handler step, at most MaxLogs of
\* them: clearLogs comes before every step that logs
CanLog(n) == n = 0 \/ (logs = <<>> /\ n <= MaxLogs)

\* clearLogs()
ClearLogs ==
    /\ logs # <<>>
    /\ logs' = <<>>
    /\ last' = [op |-> "clearLogs", ret |-> "none"]
    /\ written' = <<>>
    /\ UNCHANGED <<call, sends, isSupported, isConnected, isConnecting,
                   deviceStatus, portRef, readerRef, writerRef, portState,
                   readerLock, writerLock, readerErrored, connectPc,
                   connectPort, disconnectPc, disconnectOn, readLoops,
                   buffer>>

(***************************************************************************)
(* connect()                                                               *)
(***************************************************************************)
Step(op, ret) == [op |-> op, ret |-> ret]

AlreadyConnectedIgnored == FALSE

\* if (isConnected) { toast.info('Already connected to a device'); return true; }
AlreadyConnected == isConnected

NotSupportedIgnored == FALSE

\* if (!isSupported) { toast.error(...); return false; }
NotSupported == ~isSupported

\* catch: addLog(`Connection failed: ${message}`); return false;
\* finally: setIsConnecting(false)
ConnectFailed(c, op) ==
    /\ CanLog(1)
    /\ logs' = addLog(logs, "Connection failed", <<>>)
    /\ isConnecting' = FALSE
    /\ connectPc' = [connectPc EXCEPT ![c] = "idle"]
    /\ connectPort' = [connectPort EXCEPT ![c] = NoPort]
    /\ last' = Step(op, "false")
    /\ written' = <<>>
    /\ UNCHANGED <<call, sends, isSupported, isConnected, deviceStatus,
                   portRef, readerRef, writerRef, readerLock, writerLock,
                   readerErrored, disconnectPc, disconnectOn, readLoops,
                   buffer>>

\* connect() is called: the checks, setIsConnecting(true), requestPort();
\* a call is followed in the first free slot
ConnectCall(c) ==
    /\ connectPc[c] = "idle"
    /\ \A d \in ConnectCalls : d < c => connectPc[d] # "idle"
    /\ IF NotSupported
       THEN /\ last' = Step("connect", "false")
            /\ UNCHANGED <<isConnecting, connectPc>>
       ELSE IF AlreadyConnected
       THEN /\ last' = Step("connect", "true")
            /\ UNCHANGED <<isConnecting, connectPc>>
       ELSE /\ isConnecting' = TRUE
            /\ connectPc' = [connectPc EXCEPT ![c] = "requestPort"]
            /\ last' = Step("connect", "pending")
    /\ written' = <<>>
    /\ UNCHANGED <<call, sends, isSupported, isConnected, deviceStatus, logs,
                   portRef, readerRef, writerRef, portState, readerLock,
                   writerLock, readerErrored, connectPort, disconnectPc,
                   disconnectOn, readLoops, buffer>>

\* requestPort() resolves with the port the user chose; port.open() is called,
\* and rejects at once unless the port is closed
ConnectPortChosen(c, p) ==
    /\ connectPc[c] = "requestPort"
    /\ IF portState[p] = "closed"
       THEN /\ portState' = [portState EXCEPT ![p] = "opening"]
            /\ connectPc' = [connectPc EXCEPT ![c] = "open"]
            /\ connectPort' = [connectPort EXCEPT ![c] = p]
            /\ last' = Step("connect.requestPort", "pending")
            /\ written' = <<>>
            /\ UNCHANGED <<call, sends, isSupported, isConnected,
                           isConnecting, deviceStatus, logs, portRef,
                           readerRef, writerRef, readerLock, writerLock,
                           readerErrored, disconnectPc, disconnectOn,
                           readLoops, buffer>>
       ELSE /\ ConnectFailed(c, "connect.requestPort")
            /\ UNCHANGED portState

\* requestPort() rejects: the user closed the chooser ('No port selected')
ConnectNoPortSelected(c) ==
    /\ connectPc[c] = "requestPort"
    /\ ConnectFailed(c, "connect.requestPort")
    /\ UNCHANGED portState

StatusConnectedUnnamed(status) == [status EXCEPT !.connected = TRUE]

\* setDeviceStatus(prev => ({ ...prev, connected: true, portName: 'Arduino Device' }))
StatusConnected(status) ==
    [status EXCEPT !.connected = TRUE, !.portName = "Arduino Device"]

\* port.open() resolves: the refs are set, the writer and the reader are
\* acquired, readLoop() runs up to its first read, and the state is published
ConnectOpened(c) ==
    LET p == connectPort[c] IN
    /\ connectPc[c] = "open"
    /\ CanLog(1)
    /\ portState' = [portState EXCEPT ![p] = "opened"]
    /\ portRef' = p
    /\ writerRef' = p
    /\ writerLock' = writerLock \cup {p}
    /\ readerRef' = p
    /\ readerLock' = readerLock \cup {p}
    /\ readerErrored' = readerErrored \ {p}
    /\ readLoops' = readLoops \cup {p}
    /\ buffer' = [buffer EXCEPT ![p] = <<>>]
    /\ isConnected' = TRUE
    /\ deviceStatus' = StatusConnected(deviceStatus)
    /\ logs' = addLog(logs, "Connected to serial device", <<>>)
    /\ isConnecting' = FALSE
    /\ connectPc' = [connectPc EXCEPT ![c] = "idle"]
    /\ connectPort' = [connectPort EXCEPT ![c] = NoPort]
    /\ last' = Step("connect.open", "true")
    /\ written' = <<>>
    /\ UNCHANGED <<call, sends, isSupported, disconnectPc, disconnectOn>>

\* port.open() rejects: the port stays closed
ConnectOpenFailed(c) ==
    /\ connectPc[c] = "open"
    /\ portState' = [portState EXCEPT ![connectPort[c]] = "closed"]
    /\ ConnectFailed(c, "connect.open")

(***************************************************************************)
(* readLoop()                                                              *)
(***************************************************************************)
\* the characters String.prototype.trim removes
WhiteSpace ==
    {9, 10, 11, 12, 13, 32, 160, 5760, 8232, 8233, 8239, 8287, 12288, 65279}
        \cup 8192..8202

IsTerminatorNewlineOnly(u) == u = 10

\* /[\n\x03]/
IsTerminator(u) == u \in {10, ETX}

\* buffer.split(/[\n\x03]/): the segments between terminators, in order
RECURSIVE SplitFrom(_, _, _, _)
SplitFrom(text, i, segment, lines) ==
    IF i > Len(text) THEN Append(lines, segment)
    ELSE IF IsTerminator(text[i])
         THEN SplitFrom(text, i + 1, <<>>, Append(lines, segment))
         ELSE SplitFrom(text, i + 1, Append(segment, text[i]), lines)

Split(text) == SplitFrom(text, 1, <<>>, <<>>)

\* line.trim()
RECURSIVE TrimStart(_)
TrimStart(line) ==
    IF line # <<>> /\ Head(line) \in WhiteSpace THEN TrimStart(Tail(line)) ELSE line

RECURSIVE TrimEnd(_)
TrimEnd(line) ==
    IF line # <<>> /\ line[Len(line)] \in WhiteSpace
    THEN TrimEnd(SubSeq(line, 1, Len(line) - 1))
    ELSE line

Trim(line) == TrimEnd(TrimStart(line))

\* decoder.decode(value, { stream: true }): the UTF-8 decoder over the bytes
\* of the chunk from the i-th on, for one-byte and two-byte sequences. lead is
\* the lead byte of a sequence that the bytes so far left incomplete, or 0; it
\* is kept for the next chunk. A byte that fits nowhere decodes to U+FFFD.
RECURSIVE DecodeFrom(_, _, _, _)
DecodeFrom(bytes, i, lead, text) ==
    IF i > Len(bytes) THEN [text |-> text, lead |-> lead]
    ELSE IF lead = 0
    THEN IF bytes[i] < 128
         THEN DecodeFrom(bytes, i + 1, 0, Append(text, bytes[i]))
         ELSE IF bytes[i] \in 194..223
         THEN DecodeFrom(bytes, i + 1, bytes[i], text)
         ELSE DecodeFrom(bytes, i + 1, 0, Append(text, 65533))
    ELSE IF bytes[i] \in 128..191
         THEN DecodeFrom(bytes, i + 1, 0,
                         Append(text, (lead - 192) * 64 + (bytes[i] - 128)))
         ELSE DecodeFrom(bytes, i, 0, Append(text, 65533))

\* the text of a chunk that no incomplete sequence precedes or ends
Decode(chunk) == DecodeFrom(chunk, 1, 0, <<>>).text

\* const lines = buffer.split(...); buffer = lines.pop() || ''
CompleteLines(text) == SubSeq(Split(text), 1, Len(Split(text)) - 1)

CarryOverDropped(text) == <<>>

CarryOverWhole(text) == text

CarryOver(text) == Split(text)[Len(Split(text))]

\* for (const line of lines) if (line.trim()) ... : the messages, trimmed
RECURSIVE Messages(_)
Messages(lines) ==
    IF lines = <<>> THEN <<>>
    ELSE IF Trim(Head(lines)) # <<>>
         THEN <<Trim(Head(lines))>> \o Messages(Tail(lines))
         ELSE Messages(Tail(lines))

\* addLog(`<- ${line.trim()}`) for each message, in order
RECURSIVE LogReceived(_, _)
LogReceived(entries, messages) ==
    IF messages = <<>> THEN entries
    ELSE LogReceived(addLog(entries, "received", Head(messages)), Tail(messages))

\* setDeviceStatus(prev => ({ ...prev, lastResponse: line.trim() })), each message
StatusAfter(status, messages) ==
    IF messages = <<>> THEN status
    ELSE [status EXCEPT !.lastResponse = messages[Len(messages)],
                        !.hasResponse = TRUE]

\* the chunks a device sends in the transport model: "A" and "\n"
Chunks == {<<65>>, <<10>>}

\* reader.read() resolves with a chunk: one iteration of the loop
ReadChunk(p, chunk) ==
    LET text == buffer[p] \o Decode(chunk)
        messages == Messages(CompleteLines(text))
    IN  /\ p \in readLoops
        /\ Len(CarryOver(text)) <= MaxBuffer
        /\ CanLog(Len(messages))
        /\ buffer' = [buffer EXCEPT ![p] = CarryOver(text)]
        /\ logs' = LogReceived(logs, messages)
        /\ deviceStatus' = StatusAfter(deviceStatus, messages)
        /\ last' = Step("readLoop.read", "chunk")
        /\ written' = <<>>
        /\ UNCHANGED <<call, sends, isSupported, isConnected, isConnecting,
                       portRef, readerRef, writerRef, portState, readerLock,
                       writerLock, readerErrored, connectPc, connectPort,
                       disconnectPc, disconnectOn, readLoops>>

\* reader.read() resolves with done: the loop breaks and returns
ReadDone(p) ==
    /\ p \in readLoops
    /\ readLoops' = readLoops \ {p}
    /\ buffer' = [buffer EXCEPT ![p] = <<>>]
    /\ last' = Step("readLoop.read", "done")
    /\ written' = <<>>
    /\ UNCHANGED <<call, sends, isSupported, isConnected, isConnecting,
                   deviceStatus, logs, portRef, readerRef, writerRef,
                   portState, readerLock, writerLock, readerErrored,
                   connectPc, connectPort, disconnectPc, disconnectOn>>

\* the names of the errors a serial read rejects with: the device was lost
\* (NetworkError), or a recoverable line error
ReadErrorNames == {"NetworkError", "BufferOverrunError"}

\* reader.read() rejects: the stream has errored; the loop logs the error
\* unless it is a NetworkError, and returns
ReadFailed(p, name) ==
    /\ p \in readLoops
    /\ readLoops' = readLoops \ {p}
    /\ readerErrored' = readerErrored \cup {p}
    /\ IF name # "NetworkError"
       THEN CanLog(1) /\ logs' = addLog(logs, "Read error", <<>>)
       ELSE UNCHANGED logs
    /\ buffer' = [buffer EXCEPT ![p] = <<>>]
    /\ last' = Step("readLoop.read", name)
    /\ written' = <<>>
    /\ UNCHANGED <<call, sends, isSupported, isConnected, isConnecting,
                   deviceStatus, portRef, readerRef, writerRef, portState,
                   readerLock, writerLock, connectPc, connectPort,
                   disconnectPc, disconnectOn>>

(***************************************************************************)
(* disconnect()                                                            *)
(***************************************************************************)
\* entries with each message of later appended by addLog, in order
RECURSIVE LogAll(_, _)
LogAll(entries, later) ==
    IF later = <<>> THEN entries
    ELSE LogAll(addLog(entries, Head(later), <<>>), Tail(later))

\* setIsConnected(false); setDeviceStatus({...}); addLog('Disconnected ...');
\* later: what handlers woken by this step log once it has returned
DisconnectFinish(later) ==
    /\ CanLog(1 + Len(later))
    /\ isConnected' = FALSE
    /\ deviceStatus' = InitialDeviceStatus
    /\ logs' = LogAll(addLog(logs, "Disconnected from serial device", <<>>), later)
    /\ disconnectPc' = "idle"
    /\ disconnectOn' = NoPort
    /\ last' = Step("disconnect", "done")

\* catch: addLog(`Disconnect error: ${message}`)
DisconnectFailed ==
    /\ CanLog(1)
    /\ logs' = addLog(logs, "Disconnect error", <<>>)
    /\ disconnectPc' = "idle"
    /\ disconnectOn' = NoPort
    /\ last' = Step("disconnect", "error")
    /\ UNCHANGED <<isConnected, deviceStatus>>

\* if (portRef.current) { await portRef.current.close(); ... } and what follows,
\* given the port ref as the steps before left it
DisconnectPortStep(later) ==
    IF portRef # NoPort
    THEN /\ CanLog(Len(later))
         /\ logs' = LogAll(logs, later)
         /\ disconnectPc' = "closePort"
         /\ disconnectOn' = portRef
         /\ last' = Step("disconnect", "pending")
         /\ UNCHANGED <<isConnected, deviceStatus>>
    ELSE DisconnectFinish(later)

\* if (writerRef.current) { await writerRef.current.close(); ... } and what
\* follows; w is the writer ref as the steps before left it
DisconnectWriterStep(w, later) ==
    IF w # NoPort
    THEN /\ CanLog(Len(later))
         /\ logs' = LogAll(logs, later)
         /\ disconnectPc' = "closeWriter"
         /\ disconnectOn' = w
         /\ last' = Step("disconnect", "pending")
         /\ UNCHANGED <<isConnected, deviceStatus>>
    ELSE DisconnectPortStep(later)

CancelUnnoticed(loops, r) == loops

\* await readerRef.current.cancel(): the read pending on reader r resolves
\* with done, and its loop breaks and returns (line 172)
AfterCancel(loops, r) == loops \ {r}

\* disconnect() is called: up to its first await
DisconnectCall ==
    /\ disconnectPc = "idle"
    /\ IF readerRef # NoPort
       THEN \* readerRef.current.cancel(): a pending read resolves with done
            /\ disconnectPc' = "cancel"
            /\ disconnectOn' = readerRef
            /\ readLoops' = AfterCancel(readLoops, readerRef)
            /\ buffer' = [buffer EXCEPT ![readerRef] = <<>>]
            /\ last' = Step("disconnect", "pending")
            /\ UNCHANGED <<isConnected, deviceStatus, logs>>
       ELSE /\ DisconnectWriterStep(writerRef, <<>>)
            /\ UNCHANGED <<readLoops, buffer>>
    /\ written' = <<>>
    /\ UNCHANGED <<call, sends, isSupported, isConnecting, portRef,
                   readerRef, writerRef, portState, readerLock, writerLock,
                   readerErrored, connectPc, connectPort>>

\* reader.cancel() resolves; readerRef.current.releaseLock() releases the
\* reader the ref holds now: the cancelled one, or the reader of a connect()
\* that finished meanwhile. The pending read of that one is rejected
\* (TypeError), and its readLoop logs the error and returns as soon as this
\* step has reached its next await.
DisconnectCancelled ==
    /\ disconnectPc = "cancel"
    /\ disconnectOn \notin readerErrored
    /\ readerLock' = readerLock \ {readerRef}
    /\ readerErrored' = readerErrored \ {readerRef}
    /\ readerRef' = NoPort
    /\ readLoops' = readLoops \ {readerRef}
    /\ buffer' = [buffer EXCEPT ![readerRef] = <<>>]
    /\ DisconnectWriterStep(writerRef,
                            IF readerRef \in readLoops THEN <<"Read error">> ELSE <<>>)
    /\ written' = <<>>
    /\ UNCHANGED <<call, sends, isSupported, isConnecting, portRef, writerRef,
                   portState, writerLock, connectPc, connectPort>>

\* reader.cancel() rejects (the stream had errored), or releaseLock() throws
\* on a reader with a pending read, as streams implementations did before
\* they rejected the read instead
DisconnectCancelFailed ==
    /\ disconnectPc = "cancel"
    /\ disconnectOn \in readerErrored \/ readerRef \in readLoops
    /\ DisconnectFailed
    /\ written' = <<>>
    /\ UNCHANGED <<call, sends, isSupported, isConnecting, portRef,
                   readerRef, writerRef, portState, readerLock, writerLock,
                   readerErrored, connectPc, connectPort, readLoops, buffer>>

\* writer.close() resolves, after the writes queued before it: the writable
\* stream is closed
DisconnectWriterClosed ==
    /\ disconnectPc = "closeWriter"
    /\ \A s \in SendCalls :
          ~(sends[s].pc = "write" /\ sends[s].queued
              /\ sends[s].writer = disconnectOn)
    /\ writerLock' = writerLock \ {disconnectOn}
    /\ writerRef' = NoPort
    /\ DisconnectPortStep(<<>>)
    /\ written' = <<>>
    /\ UNCHANGED <<call, sends, isSupported, isConnecting, portRef,
                   readerRef, portState, readerLock, readerErrored,
                   connectPc, connectPort, readLoops, buffer>>

\* writer.close() rejects
DisconnectWriterCloseFailed ==
    /\ disconnectPc = "closeWriter"
    /\ DisconnectFailed
    /\ written' = <<>>
    /\ UNCHANGED <<call, sends, isSupported, isConnecting, portRef,
                   readerRef, writerRef, portState, readerLock, writerLock,
                   readerErrored, connectPc, connectPort, readLoops, buffer>>

\* port.close() resolves: it needs an opened port whose streams are unlocked
DisconnectPortClosed ==
    /\ disconnectPc = "closePort"
    /\ portState[disconnectOn] = "opened"
    /\ disconnectOn \notin readerLock \cup writerLock
    /\ portState' = [portState EXCEPT ![disconnectOn] = "closed"]
    /\ portRef' = NoPort
    /\ DisconnectFinish(<<>>)
    /\ written' = <<>>
    /\ UNCHANGED <<call, sends, isSupported, isConnecting, readerRef,
                   writerRef, readerLock, writerLock, readerErrored,
                   connectPc, connectPort, readLoops, buffer>>

\* port.close() rejects
DisconnectPortCloseFailed ==
    /\ disconnectPc = "closePort"
    /\ DisconnectFailed
    /\ written' = <<>>
    /\ UNCHANGED <<call, sends, isSupported, isConnecting, portRef,
                   readerRef, writerRef, portState, readerLock, writerLock,
                   readerErrored, connectPc, connectPort, readLoops, buffer>>

(***************************************************************************)
(* sendBytes() and sendCommand()                                           *)
(***************************************************************************)
\* new Uint8Array(bytes): each number is stored modulo 256
ToUint8(bytes) == [i \in 1..Len(bytes) |-> bytes[i] % 256]

\* the payloads handed to sendBytes() directly: the frame of "S", and two
\* numbers of which one is no byte
SendPayloads == {<<STX, 83, ETX, 83>>, <<10, 256>>}

\* the commands handed to sendCommand(): stop, and a play without sound code
SendCommands ==
    {MkCommand(<<"stop">>, <<>>, <<>>, <<>>, <<>>),
     MkCommand(<<"play">>, <<"lung">>, <<>>, <<"mitral">>, <<>>)}

\* writer.write(data) queues the chunk unless the stream is closed or closing
Accepts(w) ==
    w \in writerLock /\ ~(disconnectPc = "closeWriter" /\ disconnectOn = w)

\* the chunk handed over unit by unit, each unit a write of its own
WriteThroughUnits(w, data) ==
    [i \in 1..Len(data) |-> [port |-> w, data |-> <<data[i]>>]]

WriteThroughTwice(w, data) ==
    <<[port |-> w, data |-> data], [port |-> w, data |-> data]>>

\* await writer.write(data): what the writer w puts on the wire
WriteThrough(w, data) == <<[port |-> w, data |-> data]>>

SimulatedNever(s) == FALSE

\* if (isConnected) {...} else {...} in sendCommand, isConnected being the
\* value of the render the callback was made in
Simulated(s) == ~sends[s].connected

\* a call is followed in the first free slot
FreeSend(s) ==
    /\ sends[s].pc = "idle"
    /\ \A t \in SendCalls : t < s => sends[t].pc # "idle"

\* const writer = writerRef.current; ... await writer.write(data)
Writing(kind, seen, command, bytes) ==
    [pc |-> "write", kind |-> kind, connected |-> seen, command |-> command,
     bytes |-> bytes, writer |-> writerRef, queued |-> Accepts(writerRef)]

\* sendBytes(bytes) is called by a component: up to its first await
SendBytesCall(s, bytes) ==
    /\ FreeSend(s)
    /\ IF writerRef = NoPort \/ ~isConnected
       THEN /\ CanLog(1)
            /\ logs' = addLog(logs, "Cannot send: not connected", <<>>)
            /\ last' = Step("sendBytes", "false")
            /\ UNCHANGED sends
       ELSE /\ sends' = [sends EXCEPT
                           ![s] = Writing("sendBytes", isConnected, <<>>, bytes)]
            /\ last' = Step("sendBytes", "pending")
            /\ UNCHANGED logs
    /\ written' = <<>>
    /\ UNCHANGED <<call, isSupported, isConnected, isConnecting,
                   deviceStatus, portRef, readerRef, writerRef, portState,
                   readerLock, writerLock, readerErrored, connectPc,
                   connectPort, disconnectPc, disconnectOn, readLoops,
                   buffer>>

\* sendCommand(command) is called: addLog(`Formatting command: ...`), and the
\* request to the edge function is sent
SendCommandCall(s, command) ==
    /\ FreeSend(s)
    /\ CanLog(1)
    /\ logs' = addLog(logs, "Formatting command", ActionOf(command))
    /\ sends' = [sends EXCEPT
                   ![s] = [pc |-> "invoke", kind |-> "sendCommand",
                           connected |-> isConnected, command |-> command,
                           bytes |-> <<>>, writer |-> NoPort, queued |-> FALSE]]
    /\ last' = Step("sendCommand", "pending")
    /\ written' = <<>>
    /\ UNCHANGED <<call, isSupported, isConnected, isConnecting,
                   deviceStatus, portRef, readerRef, writerRef, portState,
                   readerLock, writerLock, readerErrored, connectPc,
                   connectPort, disconnectPc, disconnectOn, readLoops,
                   buffer>>

CommandSwallowed(s, op, entries) ==
    /\ logs' = entries
    /\ sends' = [sends EXCEPT ![s] = IdleSend]
    /\ last' = Step(op, "true")

\* catch: addLog(`Command error: ${message}`); return false; entries is the
\* log as the call left it before it threw
CommandFailed(s, op, entries) ==
    /\ CanLog(Len(entries) - Len(logs) + 1)
    /\ logs' = addLog(entries, "Command error", <<>>)
    /\ sends' = [sends EXCEPT ![s] = IdleSend]
    /\ last' = Step(op, "false")

\* functions.invoke() resolves with the response of the edge function: an
\* error for a status other than 2xx; else the description is logged and the
\* bytes are sent, or their dump is logged when isConnected was false
SendCommandResponded(s) ==
    LET response == Serve(sends[s].command)
        described == addLog(logs, "Command", response.command.description)
    IN  /\ sends[s].pc = "invoke"
        /\ IF response.status # 200
           THEN CommandFailed(s, "sendCommand.invoke", logs)
           ELSE IF Simulated(s)
           THEN /\ CanLog(2)
                /\ logs' = addLog(described, "[Simulated] Would send", response.hex)
                /\ sends' = [sends EXCEPT ![s] = IdleSend]
                /\ last' = Step("sendCommand.invoke", "true")
           ELSE IF writerRef = NoPort
           THEN \* sendBytes: if (!writer || !isConnected) ... return false
                CommandFailed(s, "sendCommand.sendBytes",
                              addLog(described, "Cannot send: not connected", <<>>))
           ELSE /\ CanLog(1)
                /\ logs' = described
                /\ sends' = [sends EXCEPT
                               ![s] = Writing("sendCommand", sends[s].connected,
                                              sends[s].command,
                                              response.command.bytes)]
                /\ last' = Step("sendCommand.sendBytes", "pending")
        /\ written' = <<>>
        /\ UNCHANGED <<call, isSupported, isConnected, isConnecting,
                       deviceStatus, portRef, readerRef, writerRef, portState,
                       readerLock, writerLock, readerErrored, connectPc,
                       connectPort, disconnectPc, disconnectOn, readLoops,
                       buffer>>

\* functions.invoke() resolves with an error: the request did not get through
SendCommandInvokeFailed(s) ==
    /\ sends[s].pc = "invoke"
    /\ CommandFailed(s, "sendCommand.invokeFailed", logs)
    /\ written' = <<>>
    /\ UNCHANGED <<call, isSupported, isConnected, isConnecting,
                   deviceStatus, portRef, readerRef, writerRef, portState,
                   readerLock, writerLock, readerErrored, connectPc,
                   connectPort, disconnectPc, disconnectOn, readLoops,
                   buffer>>

\* writer.write(data) resolves: the bytes are on the wire; the hex dump is
\* logged, lastCommandTime is set, and the call returns true
SendWritten(s) ==
    /\ sends[s].pc = "write"
    /\ sends[s].queued
    /\ sends[s].writer \in writerLock
    /\ CanLog(1)
    /\ written' = WriteThrough(sends[s].writer, ToUint8(sends[s].bytes))
    /\ logs' = addLog(logs, "sent", HexDump(sends[s].bytes))
    /\ deviceStatus' = [deviceStatus EXCEPT !.lastCommandTime = "Date"]
    /\ sends' = [sends EXCEPT ![s] = IdleSend]
    /\ last' = Step(IF sends[s].kind = "sendBytes" THEN "sendBytes.write"
                    ELSE "sendCommand.write", "true")
    /\ UNCHANGED <<call, isSupported, isConnected, isConnecting, portRef,
                   readerRef, writerRef, portState, readerLock, writerLock,
                   readerErrored, connectPc, connectPort, disconnectPc,
                   disconnectOn, readLoops, buffer>>

\* writer.write(data) rejects: addLog(`Send error: ...`); return false; and
\* sendCommand throws 'Failed to send to device'
SendWriteFailed(s) ==
    /\ sends[s].pc = "write"
    /\ IF sends[s].kind = "sendBytes"
       THEN /\ CanLog(1)
            /\ logs' = addLog(logs, "Send error", <<>>)
            /\ sends' = [sends EXCEPT ![s] = IdleSend]
            /\ last' = Step("sendBytes.write", "false")
       ELSE CommandFailed(s, "sendCommand.write", addLog(logs, "Send error", <<>>))
    /\ written' = <<>>
    /\ UNCHANGED <<call, isSupported, isConnected, isConnecting,
                   deviceStatus, portRef, readerRef, writerRef, portState,
                   readerLock, writerLock, readerErrored, connectPc,
                   connectPort, disconnectPc, disconnectOn, readLoops,
                   buffer>>

(***************************************************************************)
(* The transport                                                           *)
(***************************************************************************)
Init == call = NoCall /\ TransportInit

Next ==
    \/ \E c \in ConnectCalls : ConnectCall(c)
    \/ \E c \in ConnectCalls, p \in Ports : ConnectPortChosen(c, p)
    \/ \E c \in ConnectCalls : ConnectNoPortSelected(c)
    \/ \E c \in ConnectCalls : ConnectOpened(c)
    \/ \E c \in ConnectCalls : ConnectOpenFailed(c)
    \/ \E p \in Ports, chunk \in Chunks : ReadChunk(p, chunk)
    \/ \E p \in Ports : ReadDone(p)
    \/ \E p \in Ports, name \in ReadErrorNames : ReadFailed(p, name)
    \/ DisconnectCall
    \/ DisconnectCancelled
    \/ DisconnectCancelFailed
    \/ DisconnectWriterClosed
    \/ DisconnectWriterCloseFailed
    \/ DisconnectPortClosed
    \/ DisconnectPortCloseFailed
    \/ \E s \in SendCalls, bytes \in SendPayloads : SendBytesCall(s, bytes)
    \/ \E s \in SendCalls, command \in SendCommands : SendCommandCall(s, command)
    \/ \E s \in SendCalls : SendCommandResponded(s)
    \/ \E s \in SendCalls : SendCommandInvokeFailed(s)
    \/ \E s \in SendCalls : SendWritten(s)
    \/ \E s \in SendCalls : SendWriteFailed(s)
    \/ ClearLogs

Spec == Init /\ [][Next]_vars

(***************************************************************************)
(* The transport with overlapping sends: one connect() at a time, and      *)
(* MaxOverlap send calls in flight                                         *)
(***************************************************************************)
InitSend == call = NoCall /\ TransportInitOf(1..1, 1..MaxOverlap)

SpecSend == InitSend /\ [][Next]_vars

(***************************************************************************)
(* The encoder on its own                                                  *)
(***************************************************************************)
\* the call to make: formatCommand on any command, calculateChecksum on any
\* string, or a POST of any command to the edge function
InitEnc ==
    /\ call \in [fn : {"formatCommand"}, arg : Commands, returned : {FALSE}]
               \cup [fn : {"calculateChecksum"}, arg : StringsUpTo(MaxLen),
                     returned : {FALSE}]
               \cup [fn : {"serve"}, arg : Commands, returned : {FALSE}]
    /\ TransportInit

\* formatCommand(command)
FormatCommandCall ==
    /\ call.fn = "formatCommand" /\ ~call.returned
    /\ call' = [fn |-> "formatCommand", arg |-> call.arg, returned |-> TRUE,
                result |-> formatCommand(call.arg)]
    /\ UNCHANGED transportVars

\* calculateChecksum(data)
ChecksumCall ==
    /\ call.fn = "calculateChecksum" /\ ~call.returned
    /\ call' = [fn |-> "calculateChecksum", arg |-> call.arg, returned |-> TRUE,
                result |-> calculateChecksum(call.arg)]
    /\ UNCHANGED transportVars

\* serve's handler on a POST whose body is the command
ServeCall ==
    /\ call.fn = "serve" /\ ~call.returned
    /\ call' = [fn |-> "serve", arg |-> call.arg, returned |-> TRUE,
                result |-> Serve(call.arg)]
    /\ UNCHANGED transportVars

NextEnc == FormatCommandCall \/ ChecksumCall \/ ServeCall

SpecEnc == InitEnc /\ [][NextEnc]_vars

(***************************************************************************)
(* The read loop's reassembly on its own                                   *)
(***************************************************************************)
\* the bytes of the streams fed to the loop: 'A', ' ', '\n', ETX, and the
\* two bytes of U+00E9
StreamBytes == {65, 32, 10, ETX, 195, 169}

RECURSIVE StreamsUpTo(_)
StreamsUpTo(n) ==
    IF n = 0 THEN {<<>>}
    ELSE LET shorter == StreamsUpTo(n - 1)
         IN  shorter \cup {Append(b, u) : b \in shorter, u \in StreamBytes}

\* every way of cutting bytes into consecutive chunks, none empty
RECURSIVE Cuttings(_)
Cuttings(bytes) ==
    IF bytes = <<>> THEN {<<>>}
    ELSE UNION {{<<SubSeq(bytes, 1, k)>> \o rest :
                    rest \in Cuttings(SubSeq(bytes, k + 1, Len(bytes)))} :
                 k \in 1..Len(bytes)}

\* "A\nB\x03C" in one chunk; "OK:PLAYING:LU" then "NG\n"
ExampleCuts ==
    {<<<<65, 10, 66, 3, 67>>>>,
     <<<<79, 75, 58, 80, 76, 65, 89, 73, 78, 71, 58, 76, 85>>, <<78, 71, 10>>>>}

\* const decoder = new TextDecoder(); let buffer = ''; and the chunks the
\* reader is going to deliver
ReadLoopStart(chunks) ==
    [fn |-> "readLoop", returned |-> FALSE, chunks |-> chunks, count |-> 0,
     fed |-> <<>>, lead |-> 0, buffer |-> <<>>, text |-> <<>>,
     lines |-> <<>>, emitted |-> <<>>]

InitReassembly ==
    /\ call \in {ReadLoopStart(chunks) :
                   chunks \in ExampleCuts
                     \cup UNION {Cuttings(b) : b \in StreamsUpTo(MaxStream)}}
    /\ TransportInit

\* one iteration of the loop: lines 171-188 without the log and the status
ReassembleChunk ==
    /\ call.fn = "readLoop" /\ call.chunks # <<>>
    /\ LET decoded == DecodeFrom(Head(call.chunks), 1, call.lead, <<>>)
           text == call.buffer \o decoded.text
       IN  call' = [call EXCEPT
                      !.chunks = Tail(call.chunks),
                      !.count = call.count + 1,
                      !.fed = call.fed \o Head(call.chunks),
                      !.lead = decoded.lead,
                      !.text = text,
                      !.buffer = CarryOver(text),
                      !.lines = Messages(CompleteLines(text)),
                      !.emitted = call.emitted \o Messages(CompleteLines(text))]
    /\ UNCHANGED transportVars

NextReassembly == ReassembleChunk

SpecReassembly == InitReassembly /\ [][NextReassembly]_vars

(***************************************************************************)
(* Two connections one after the other: the read loop of the second        *)
(***************************************************************************)
\* what the device sends on the second connection, as chunks: "\n"; "A\n";
\* a continuation byte and "\n"; "B" then ETX
NextStreams ==
    {<<<<10>>>>, <<<<65, 10>>>>, <<<<169, 10>>>>, <<<<66>>, <<3>>>>}

NewCarryOverKept(old) == old

\* let buffer = '': the carry-over of a readLoop() call that begins, old being
\* the carry-over of the call before it
NewCarryOver(old) == <<>>

InitReconnect ==
    /\ call \in {ReadLoopStart(chunks) :
                   chunks \in UNION {Cuttings(b) : b \in StreamsUpTo(MaxLeftover)}}
    /\ TransportInit

\* the first connection has ended with all its chunks read; connect() opens
\* a port again and calls readLoop(), which is going to read chunks
Reconnect(chunks) ==
    /\ call.fn = "readLoop" /\ call.chunks = <<>>
    /\ "previous" \notin DOMAIN call
    /\ call' = [ReadLoopStart(chunks) EXCEPT !.buffer = NewCarryOver(call.buffer)]
                  @@ [previous |-> call.buffer]
    /\ UNCHANGED transportVars

NextReconnect ==
    \/ ReassembleChunk
    \/ \E chunks \in NextStreams : Reconnect(chunks)

SpecReconnect == InitReconnect /\ [][NextReconnect]_vars

(***************************************************************************)
(* The diagnostics log on its own                                          *)
(***************************************************************************)
InitLog ==
    /\ call = [fn |-> "addLog", returned |-> FALSE, count |-> 0, cleared |-> 0]
    /\ TransportInit

\* addLog(message), the message being the number of the insertion
AddLogCall ==
    /\ call.fn = "addLog" /\ call.count < MaxInsertions
    /\ logs' = addLog(logs, "entry", call.count + 1)
    /\ call' = [call EXCEPT !.count = call.count + 1]
    /\ UNCHANGED <<isSupported, isConnected, isConnecting, deviceStatus,
                   portRef, readerRef, writerRef, portState, readerLock,
                   writerLock, readerErrored, connectPc, connectPort,
                   disconnectPc, disconnectOn, readLoops, buffer, sends,
                   written, last>>

\* clearLogs(), remembering the insertions made before it
ClearLogsCall ==
    /\ call.fn = "addLog" /\ logs # <<>>
    /\ logs' = <<>>
    /\ call' = [call EXCEPT !.cleared = call.count]
    /\ UNCHANGED <<isSupported, isConnected, isConnecting, deviceStatus,
                   portRef, readerRef, writerRef, portState, readerLock,
                   writerLock, readerErrored, connectPc, connectPort,
                   disconnectPc, disconnectOn, readLoops, buffer, sends,
                   written, last>>

NextLog == AddLogCall \/ ClearLogsCall

SpecLog == InitLog /\ [][NextLog]_vars

(***************************************************************************)
(* Properties of the encoder, checked under SpecEnc                        *)
(***************************************************************************)
FormatReturned == call.fn = "formatCommand" /\ call.returned

\* the sum of the code units of a string, by structural recursion
RECURSIVE CodeSum(_)
CodeSum(s) == IF s = <<>> THEN 0 ELSE Head(s) + CodeSum(Tail(s))

\* the text after the last ':' of raw
RECURSIVE LastField(_)
LastField(raw) ==
    IF \E i \in 1..Len(raw) : raw[i] = Colon
    THEN LastField(SubSeq(raw, (CHOOSE i \in 1..Len(raw) : raw[i] = Colon) + 1, Len(raw)))
    ELSE raw

IsDecimal(text) == text # <<>> /\ \A i \in 1..Len(text) : text[i] \in 48..57

RECURSIVE DecimalValue(_)
DecimalValue(text) ==
    IF text = <<>> THEN 0
    ELSE 10 * DecimalValue(SubSeq(text, 1, Len(text) - 1)) + (text[Len(text)] - 48)

\* C1: the bytes formatCommand returns are 0x02, the code units of raw, 0x03
\* and the checksum of raw, in that order and nothing else: length(raw) + 3
\* bytes, whose middle part decodes back to raw.
C1_FrameLayout ==
    FormatReturned =>
        LET r == call.result
            n == Len(r.bytes)
        IN  /\ n = Len(r.raw) + 3
            /\ r.bytes[1] = 2
            /\ r.bytes[n - 1] = 3
            /\ r.bytes[n] = r.checksum
            /\ r.checksum = CodeSum(r.raw) % 256
            /\ SubSeq(r.bytes, 2, n - 2) = r.raw

\* a play command with a long raw has been framed
C1_Witness ==
    /\ FormatReturned
    /\ ActionOf(call.arg) = "play"
    /\ Len(call.result.raw) = 22
    /\ Len(call.result.bytes) = 25

\* C2: calculateChecksum(raw) is the sum of the code units of raw modulo 256,
\* hence in 0..255; it is 83 for "S" and 0 for the empty string.
C2_ChecksumIsSumMod256 ==
    (call.fn = "calculateChecksum" /\ call.returned) =>
        /\ call.result = CodeSum(call.arg) % 256
        /\ call.result \in 0..255
        /\ (call.arg = <<83>> => call.result = 83)
        /\ (call.arg = <<>> => call.result = 0)

\* a string whose code units sum to more than 255 has been summed
C2_Witness ==
    /\ call.fn = "calculateChecksum" /\ call.returned
    /\ Len(call.arg) = 3
    /\ CodeSum(call.arg) > 255
    /\ call.result < 256

\* C3: for every play or volume command and every integer volume v supplied,
\* the volume field of raw is the decimal text of min(10, max(0, v)).
C3_VolumeFieldIsClamp ==
    (/\ FormatReturned
     /\ ActionOf(call.arg) \in {"play", "volume"}
     /\ Has(call.arg, "volume")) =>
        LET field == LastField(call.result.raw)
        IN  /\ IsDecimal(field)
            /\ DecimalValue(field) \in 0..10
            /\ DecimalValue(field) = Min(10, Max(0, call.arg.volume))

\* C4: for every play command raw is "P:" sysCode ":" upper(soundCode, or
\* "UNK" when missing) ":" locCode ":" clampVolume(volume, or 5 when missing),
\* with sysCode one of L, H, B, U and locCode the table's code or "UNK".
C4_PlayRawGrammar ==
    (FormatReturned /\ ActionOf(call.arg) = "play") =>
        LET c == call.arg
            sysCode == IF Has(c, "system") /\ c.system \in DOMAIN SYSTEM_CODES
                       THEN SYSTEM_CODES[c.system] ELSE <<85>>
            sound == IF Has(c, "soundCode") /\ c.soundCode # <<>>
                     THEN toUpperCase(c.soundCode) ELSE UNK
            locCode == IF Has(c, "location") /\ c.location \in DOMAIN LOCATION_CODES
                       THEN LOCATION_CODES[c.location] ELSE UNK
            volume == IF Has(c, "volume") THEN Min(10, Max(0, c.volume)) ELSE 5
        IN  call.result.raw =
                <<80, 58>> \o sysCode \o <<58>> \o sound \o <<58>> \o locCode
                    \o <<58>> \o NumberText(volume)

\* C5: raw is "S" for stop, "Q" for status, and "N" for every action that is
\* none of play, stop, volume, status, whatever the other fields are.
C5_FixedRaws ==
    FormatReturned =>
        /\ (ActionOf(call.arg) = "stop" => call.result.raw = <<83>>)
        /\ (ActionOf(call.arg) = "status" => call.result.raw = <<81>>)
        /\ (ActionOf(call.arg) \notin {"play", "stop", "volume", "status"}
              => call.result.raw = <<78>>)

\* a status query that carries every other field has been encoded
C5_Witness ==
    /\ FormatReturned
    /\ ActionOf(call.arg) = "status"
    /\ Has(call.arg, "system") /\ Has(call.arg, "soundCode")
    /\ Has(call.arg, "location") /\ Has(call.arg, "volume")
    /\ call.result.raw = <<81>>

(***************************************************************************)
(* Properties of the transport, checked under Spec                         *)
(***************************************************************************)
\* the connection state the hook publishes
ConnectionState ==
    IF ~isSupported THEN "Unsupported"
    ELSE IF isConnected THEN "Connected"
    ELSE IF isConnecting THEN "Connecting"
    ELSE "Disconnected"

\* C7: in every reachable state at most one reader and at most one writer
\* are held.
C7_OneReaderOneWriter ==
    /\ Cardinality(readerLock) <= 1
    /\ Cardinality(writerLock) <= 1

\* C8: the connection state changes only along Disconnected -> Connecting,
\* Connecting -> Connected, Connecting -> Disconnected and
\* Connected -> Disconnected, and is never Connecting and Connected at once.
C8_Transitions ==
    [][/\ \/ ConnectionState' = ConnectionState
          \/ <<ConnectionState, ConnectionState'>> \in
                {<<"Disconnected", "Connecting">>, <<"Connecting", "Connected">>,
                 <<"Connecting", "Disconnected">>, <<"Connected", "Disconnected">>}
       /\ ~(isConnected' /\ isConnecting')]_vars

\* C9: connect() called while Connected returns true and changes nothing: no
\* port is requested or opened, no reader or writer is acquired, and the held
\* port, reader, writer and the state stay as they are.
C9_ConnectWhileConnected ==
    [][(isConnected /\ last'.op = "connect") =>
          /\ last'.ret = "true"
          /\ UNCHANGED <<isSupported, isConnected, isConnecting, deviceStatus,
                         logs, portRef, readerRef, writerRef, portState,
                         readerLock, writerLock, readerErrored, connectPc,
                         connectPort, disconnectPc, disconnectOn, readLoops,
                         buffer, sends>>
          /\ written' = <<>>]_vars

\* connect() has been called while Connected, with the handles held, and
\* has returned true
C9_Witness ==
    /\ isConnected
    /\ last = Step("connect", "true")
    /\ portRef # NoPort /\ readerRef # NoPort /\ writerRef # NoPort
    /\ \A c \in ConnectCalls : connectPc[c] = "idle"

\* C10: connect() called while another connect() is in flight (state
\* Connecting) returns true and does nothing: no second device is requested,
\* no second port opened, no second read loop started.
C10_ConnectWhileConnecting ==
    [][(ConnectionState = "Connecting" /\ last'.op = "connect") =>
          /\ last'.ret = "true"
          /\ UNCHANGED <<connectPc, connectPort, portState, readLoops>>]_vars

\* the handles the hook keeps
Handles == <<portRef, readerRef, writerRef>>

NoHandles == <<NoPort, NoPort, NoPort>>

\* C11: when connect() fails at a step (the chooser is cancelled, port.open
\* fails), it returns false, one 'Connection failed' entry is logged, the
\* state afterwards is Disconnected, and no port, reader or writer is held.
C11_ConnectFailure ==
    [][(last'.op \in {"connect.requestPort", "connect.open"}
          /\ last'.ret = "false") =>
          /\ Len(logs') = Len(logs) + 1
          /\ logs'[Len(logs')].message = "Connection failed"
          /\ ConnectionState' = "Disconnected"
          /\ Handles' = NoHandles]_vars

\* C12: disconnect() always ends with the state Disconnected and the reader,
\* the writer and the port released, also when one of its steps has failed.
C12_DisconnectAlwaysReleases ==
    [][(last'.op = "disconnect" /\ last'.ret \in {"done", "error"}) =>
          /\ ~isConnected'
          /\ Handles' = NoHandles]_vars

\* C13: disconnect() called while the state is Disconnected changes nothing:
\* the state, the device status, the handles and the log stay as they were.
C13_DisconnectWhileDisconnected ==
    [][(ConnectionState = "Disconnected" /\ disconnectPc = "idle"
          /\ last'.op = "disconnect") =>
          UNCHANGED <<isConnected, isConnecting, deviceStatus, portRef,
                      readerRef, writerRef, logs>>]_vars

\* C14: sendBytes called while the state is not Connected returns false at
\* once, queues and performs no write, and leaves the connection state and
\* lastCommandTime as they were.
C14_SendBytesNotConnected ==
    [][(ConnectionState # "Connected"
          /\ last'.op \in {"sendBytes", "sendCommand.sendBytes"}) =>
          /\ last'.ret = "false"
          /\ written' = <<>>
          /\ \A s \in SendCalls : sends'[s].pc = "write" => sends[s].pc = "write"
          /\ UNCHANGED <<isConnected, isConnecting>>
          /\ deviceStatus'.lastCommandTime = deviceStatus.lastCommandTime]_vars

\* "0123456789abcdef"
HexChars == <<48, 49, 50, 51, 52, 53, 54, 55, 56, 57, 97, 98, 99, 100, 101, 102>>

IsBytes(bytes) == \A i \in 1..Len(bytes) : bytes[i] \in 0..255

\* text shows each byte as two hexadecimal digits, the bytes a space apart
IsHexDumpOf(text, bytes) ==
    /\ Len(text) = (IF bytes = <<>> THEN 0 ELSE 3 * Len(bytes) - 1)
    /\ \A i \in 1..Len(bytes) :
          /\ text[3 * i - 2] = HexChars[(bytes[i] \div 16) + 1]
          /\ text[3 * i - 1] = HexChars[(bytes[i] % 16) + 1]
          /\ i < Len(bytes) => text[3 * i] = 32

\* C15: a sendBytes(bytes) that succeeds has performed exactly one write, of
\* exactly the given bytes, through the writer held when it was called, has
\* appended one log entry with the hex dump of the bytes, and has set
\* lastCommandTime.
C15_SendBytesWritesOnce ==
    [][/\ (last'.op \in {"sendBytes", "sendCommand.sendBytes"}
             /\ last'.ret = "pending") =>
             \E s \in SendCalls :
                /\ sends[s].pc # "write" /\ sends'[s].pc = "write"
                /\ sends'[s].writer = writerRef /\ writerRef # NoPort
       /\ (last'.op \in {"sendBytes.write", "sendCommand.write"}
             /\ last'.ret = "true") =>
             \E s \in SendCalls :
                /\ sends[s].pc = "write" /\ sends'[s].pc = "idle"
                /\ IsBytes(sends[s].bytes) =>
                      /\ written' = <<[port |-> sends[s].writer,
                                      data |-> sends[s].bytes]>>
                      /\ Len(logs') = Len(logs) + 1
                      /\ logs'[Len(logs')].message = "sent"
                      /\ IsHexDumpOf(logs'[Len(logs')].data, sends[s].bytes)
                      /\ deviceStatus'.lastCommandTime = "Date"]_vars

\* sendBytes has written the frame of "S" through the held writer while
\* Connected, and has returned true
C15_Witness ==
    /\ last = Step("sendBytes.write", "true")
    /\ isConnected /\ writerRef # NoPort
    /\ written = <<[port |-> writerRef, data |-> <<2, 83, 3, 83>>]>>
    /\ deviceStatus.lastCommandTime = "Date"

\* C16: a sendCommand invoked while not Connected whose command is formatted
\* writes nothing and queues no write, logs the description and then the
\* simulated hex dump of the frame, returns true, and leaves the connection
\* state as it is.
C16_SimulatedSend ==
    [][\A s \in SendCalls :
          (/\ last'.op \in {"sendCommand.invoke", "sendCommand.sendBytes"}
           /\ sends[s].pc = "invoke" /\ sends'[s].pc # "invoke"
           /\ ~sends[s].connected
           /\ Serve(sends[s].command).status = 200) =>
              /\ last'.ret = "true"
              /\ written' = <<>>
              /\ sends'[s] = IdleSend
              /\ Len(logs') = Len(logs) + 2
              /\ logs'[Len(logs') - 1].message = "Command"
              /\ logs'[Len(logs')].message = "[Simulated] Would send"
              /\ IsHexDumpOf(logs'[Len(logs')].data,
                             <<STX>> \o RawOf(sends[s].command)
                                \o <<ETX, CodeSum(RawOf(sends[s].command)) % 256>>)
              /\ UNCHANGED <<isConnected, isConnecting, portRef, readerRef,
                             writerRef>>]_vars

\* sendCommand, invoked while Disconnected, has logged the simulated dump of
\* the stop frame and has returned true
C16_Witness ==
    /\ last = Step("sendCommand.invoke", "true")
    /\ ConnectionState = "Disconnected"
    /\ Len(logs) = 2
    /\ logs[2].message = "[Simulated] Would send"
    /\ logs[2].data = <<48, 50, 32, 53, 51, 32, 48, 51, 32, 53, 51>>

\* C20: whenever no connect() and no disconnect() is under way, a port, a
\* reader or a writer is held only if the state is Connected.
C20_HandlesAgreeWithState ==
    (/\ \A c \in ConnectCalls : connectPc[c] = "idle"
     /\ disconnectPc = "idle"
     /\ ConnectionState # "Connected") =>
        /\ Handles = NoHandles
        /\ readerLock = {} /\ writerLock = {}
        /\ \A p \in Ports : portState[p] = "closed"

(***************************************************************************)
(* Properties of the reassembly, checked under SpecReassembly              *)
(***************************************************************************)
\* the places of the terminators in text
TerminatorsOf(text) == {i \in 1..Len(text) : text[i] \in {10, 3}}

\* the place of the k-th terminator of text; 0 for k = 0, and one past the
\* end of text when there is none
TerminatorAt(text, k) ==
    IF k = 0 THEN 0
    ELSE IF k > Cardinality(TerminatorsOf(text)) THEN Len(text) + 1
    ELSE CHOOSE i \in TerminatorsOf(text) :
            Cardinality({j \in TerminatorsOf(text) : j < i}) = k - 1

\* the k-th of the segments the terminators cut text into
SegmentOf(text, k) ==
    SubSeq(text, TerminatorAt(text, k - 1) + 1, TerminatorAt(text, k) - 1)

\* segment without the white space at its ends
Trimmed(segment) ==
    LET solid == {i \in 1..Len(segment) : segment[i] \notin WhiteSpace}
    IN  IF solid = {} THEN <<>>
        ELSE SubSeq(segment,
                    CHOOSE i \in solid : \A j \in solid : i <= j,
                    CHOOSE i \in solid : \A j \in solid : j <= i)

NotEmpty(segment) == segment # <<>>

\* C17: on each iteration the carry-over plus the decoded chunk is cut at
\* every newline and ETX alike; every segment but the last is emitted, in
\* order, trimmed, unless it is empty once trimmed, and the last segment is the
\* new carry-over; "A\nB\x03C" emits "A" then "B" and leaves "C".
C17_IterationSplits ==
    (call.fn = "readLoop" /\ call.count > 0) =>
        LET n == Cardinality(TerminatorsOf(call.text))
        IN  /\ call.lines =
                  SelectSeq([k \in 1..n |-> Trimmed(SegmentOf(call.text, k))],
                            NotEmpty)
            /\ call.buffer = SegmentOf(call.text, n + 1)
            /\ call.text = <<65, 10, 66, 3, 67>> =>
                  call.lines = <<<<65>>, <<66>>>> /\ call.buffer = <<67>>

\* an iteration that began with the carry-over "A" has met both terminators,
\* has emitted "A" and has dropped a segment of white space
C17_Witness ==
    /\ call.fn = "readLoop" /\ call.count = 2
    /\ call.fed = <<65, 10, 32, 3>>
    /\ call.text = <<65, 10, 32, 3>>
    /\ call.lines = <<<<65>>>>
    /\ call.buffer = <<>>

\* what the loop has emitted and carries once bytes has come as one chunk
InOneChunk(bytes) ==
    LET text == DecodeFrom(bytes, 1, 0, <<>>).text
    IN  [emitted |-> Messages(CompleteLines(text)), buffer |-> CarryOver(text)]

\* C18: however the incoming bytes are cut into chunks, the messages emitted
\* and the carry-over are those of the same bytes arriving as one chunk;
\* "OK:PLAYING:LU" then "NG\n" emits "OK:PLAYING:LUNG" alone and carries
\* nothing over.
C18_ChunkBoundaries ==
    call.fn = "readLoop" =>
        /\ call.emitted = InOneChunk(call.fed).emitted
        /\ call.buffer = InOneChunk(call.fed).buffer
        /\ (call.count = 2 /\ call.chunks = <<>>
              /\ call.fed = <<79, 75, 58, 80, 76, 65, 89, 73, 78, 71, 58, 76,
                              85, 78, 71, 10>>) =>
              /\ call.emitted = <<<<79, 75, 58, 80, 76, 65, 89, 73, 78, 71,
                                    58, 76, 85, 78, 71>>>>
              /\ call.buffer = <<>>

\* a message and a two-byte character in it have come byte by byte
C18_Witness ==
    /\ call.fn = "readLoop" /\ call.chunks = <<>>
    /\ call.count = 4
    /\ call.fed = <<65, 195, 169, 10>>
    /\ call.emitted = <<<<65, 233>>>>
    /\ call.buffer = <<>>

(***************************************************************************)
(* Properties of the log, checked under SpecLog                            *)
(***************************************************************************)
\* C19: the log holds at most 100 entries, in insertion order, and they are
\* the most recent ones since the last clear; after 150 insertions into an
\* empty log it holds exactly the entries 51..150.
C19_RingBuffer ==
    call.fn = "addLog" =>
        LET made == call.count - call.cleared
            kept == IF made < 100 THEN made ELSE 100
        IN  /\ Len(logs) <= 100
            /\ Len(logs) = kept
            /\ \A i \in 1..Len(logs) : logs[i].data = call.count - kept + i
            /\ (call.count = 150 /\ call.cleared = 0) =>
                  /\ Len(logs) = 100
                  /\ logs[1].data = 51
                  /\ logs[100].data = 150

\* 150 insertions have been made into the empty log, with no clear
C19_Witness ==
    /\ call.fn = "addLog"
    /\ call.count = 150 /\ call.cleared = 0
    /\ Len(logs) = 100
    /\ logs[1].data = 51 /\ logs[100].data = 150

(***************************************************************************)
(* Further properties of the transport, checked under Spec                 *)
(***************************************************************************)
\* C21: when the read loop sees the stream closed (read returns done) while
\* the state is Connected and no disconnect() is under way, the state becomes
\* Disconnected.
C21_StreamClosedDisconnects ==
    [][(/\ last'.op = "readLoop.read" /\ last'.ret = "done"
        /\ ConnectionState = "Connected"
        /\ disconnectPc = "idle") =>
          ConnectionState' = "Disconnected"]_vars

\* C22: after a write failure in sendBytes or a read failure in the read
\* loop the state is Disconnected and a log entry records the failure, so that
\* a following connect() opens a device afresh.
C22_IoFailureDisconnects ==
    [][(\/ /\ last'.op \in {"sendBytes.write", "sendCommand.write"}
           /\ last'.ret = "false"
        \/ /\ last'.op = "readLoop.read"
           /\ last'.ret \in ReadErrorNames) =>
          /\ ~isConnected'
          /\ Len(logs') > Len(logs)]_vars

\* C23: when the formatting call inside sendCommand comes back with an error
\* (the request fails, or the response is no 2xx), sendCommand logs the error
\* and returns false, writes nothing and queues no write, and leaves the
\* connection state, the port, the reader, the writer and the read loops as
\* they are.
C23_FormatFailure ==
    [][\A s \in SendCalls :
          (/\ sends[s].pc = "invoke" /\ sends'[s].pc # "invoke"
           /\ \/ last'.op = "sendCommand.invokeFailed"
              \/ Serve(sends[s].command).status # 200) =>
              /\ last'.ret = "false"
              /\ written' = <<>>
              /\ sends'[s] = IdleSend
              /\ Len(logs') = Len(logs) + 1
              /\ logs'[Len(logs')].message = "Command error"
              /\ UNCHANGED <<isConnected, isConnecting, deviceStatus, portRef,
                             readerRef, writerRef, portState, readerLock,
                             writerLock, readerErrored, readLoops, buffer>>]_vars

\* the edge function has turned down a play command sent while Connected,
\* with the read loop running; sendCommand has returned false
C23_Witness ==
    /\ last = Step("sendCommand.invoke", "false")
    /\ ConnectionState = "Connected"
    /\ Handles # NoHandles /\ readerRef \in readLoops
    /\ logs # <<>> /\ logs[Len(logs)].message = "Command error"

\* C24: without the serial capability connect() returns false, requests and
\* opens no port, and the hook never is Connecting or Connected.
C24_UnsupportedIsTerminal ==
    [][~isSupported =>
          /\ ~isSupported'
          /\ ~isConnected' /\ ~isConnecting'
          /\ \A c \in ConnectCalls : connectPc'[c] = "idle"
          /\ \A p \in Ports : portState'[p] = "closed"
          /\ Handles' = NoHandles
          /\ last'.op = "connect" => last'.ret = "false"]_vars

\* connect() has been called without the capability and has returned false
C24_Witness ==
    /\ ~isSupported
    /\ last = Step("connect", "false")
    /\ ConnectionState = "Unsupported"

\* the number of entries the step has appended
Appended == Len(logs') - Len(logs)

\* the complete messages the read of this step has brought: with chunks of
\* one byte, the carry-overs that held text and have been emptied by a
\* terminator
Received ==
    Cardinality({p \in Ports : Trimmed(buffer[p]) # <<>> /\ buffer'[p] = <<>>})

\* C29: each transport event appends exactly one log entry: the end of a
\* connect attempt (port refused, open failed, opened), a send (a send
\* through sendCommand appends nothing before its write), each complete
\* message received, each error (read, write, disconnect), each disconnect.
C29_OneEntryPerEvent ==
    [][/\ (/\ last'.op \in {"connect.requestPort", "connect.open"}
           /\ last'.ret \in {"true", "false"}) => Appended = 1
       /\ (/\ last'.op \in {"sendBytes.write", "sendCommand.write"}
           /\ last'.ret \in {"true", "false"}) => Appended = 1
       /\ (\/ last'.op = "sendCommand"
           \/ last'.op = "sendCommand.sendBytes" /\ last'.ret = "pending")
             => Appended = 0
       /\ (last'.op = "readLoop.read" /\ last'.ret = "chunk")
             => Appended = Received
       /\ (last'.op = "readLoop.read" /\ last'.ret \in ReadErrorNames)
             => Appended = 1
       /\ (last'.op = "disconnect" /\ last'.ret \in {"done", "error"})
             => Appended = 1]_vars

\* C30: disconnect() tears down in order: a reader lock is released only
\* when the read loop on that reader has exited, a writer is closed only when
\* the reader lock of its port has been released, and a port is closed only
\* when its writer has been closed.
C30_TeardownOrder ==
    [][/\ \A p \in readerLock \ readerLock' : p \notin readLoops
       /\ \A p \in writerLock \ writerLock' : p \notin readerLock
       /\ \A p \in Ports :
             (portState[p] = "opened" /\ portState'[p] = "closed")
                => p \notin writerLock \cup readerLock]_vars

(***************************************************************************)
(* Further properties of the encoder and of the edge function, checked     *)
(* under SpecEnc                                                           *)
(***************************************************************************)
ServeReturned == call.fn = "serve" /\ call.returned

\* the property is missing from the command, or is the empty string
MissingOrEmpty(command, field) ==
    ~Has(command, field) \/ Len(command[field]) = 0

\* a play command lacking one of system, soundCode, location
PlayLacksField(command) ==
    /\ Has(command, "action") /\ command.action = "play"
    /\ \E field \in {"system", "soundCode", "location"} :
          MissingOrEmpty(command, field)

\* a 4xx response that carries no FormattedCommand
Rejected(response) ==
    /\ response.status \in 400..499
    /\ "command" \notin DOMAIN response

\* a success response that carries formatCommand's result
Accepted(response, command) ==
    /\ response.status \in 200..299
    /\ "command" \in DOMAIN response
    /\ response.success
    /\ response.command = formatCommand(command)

\* C25, as stated: the edge function rejects with a 4xx response without a
\* FormattedCommand when action is absent, and when action is play and one of
\* system, soundCode, location is missing or empty; every other request,
\* its action being present, gets a success response with formatCommand's
\* result.
C25_RejectsOnlyAbsentAction ==
    ServeReturned =>
        IF ~Has(call.arg, "action") \/ PlayLacksField(call.arg)
        THEN Rejected(call.result)
        ELSE Accepted(call.result, call.arg)

\* C25, amended: the same with "absent or empty" for the action: a request
\* is rejected when action is absent or the empty string, and when action is
\* play and one of system, soundCode, location is missing or empty; every
\* other request gets a success response with formatCommand's result.
C25_RejectsAbsentOrEmptyAction ==
    ServeReturned =>
        IF MissingOrEmpty(call.arg, "action") \/ PlayLacksField(call.arg)
        THEN Rejected(call.result)
        ELSE Accepted(call.result, call.arg)

\* a play command with system and location given and an empty soundCode has
\* been turned down
C25_Witness ==
    /\ ServeReturned
    /\ ActionOf(call.arg) = "play"
    /\ Has(call.arg, "system") /\ call.arg.system = "lung"
    /\ Has(call.arg, "location") /\ call.arg.location = "mitral"
    /\ Has(call.arg, "soundCode") /\ call.arg.soundCode = <<>>
    /\ Rejected(call.result)

\* Play{system: lung, soundCode: lung_normal, location: right-upper-anterior,
\* volume: 12}
WorkedExample ==
    MkCommand(<<"play">>, <<"lung">>, <<LungNormal>>,
              <<"right-upper-anterior">>, <<12>>)

\* "P:L:LUNG_NORMAL:RUA:10"
WorkedExampleRaw ==
    <<80, 58, 76, 58, 76, 85, 78, 71, 95, 78, 79, 82, 77, 65, 76, 58,
      82, 85, 65, 58, 49, 48>>

\* C26: encoding the worked example gives raw "P:L:LUNG_NORMAL:RUA:10" of 22
\* characters, the checksum that is the sum of those 22 codes modulo 256,
\* and 25 bytes.
C26_WorkedExample ==
    (FormatReturned /\ call.arg = WorkedExample) =>
        /\ call.result.raw = WorkedExampleRaw
        /\ Len(call.result.raw) = 22
        /\ call.result.checksum = CodeSum(WorkedExampleRaw) % 256
        /\ Len(call.result.bytes) = 25

\* the worked example has been encoded
C26_Witness ==
    /\ FormatReturned
    /\ call.arg = WorkedExample
    /\ call.arg.volume = 12
    /\ Len(call.result.bytes) = 25

\* C27: in every play command a location that is none of the 21 keys of the
\* table (or is missing) is encoded as "UNK" and a system other than lung,
\* heart, bowel (or missing) as "U", and the frame is complete: STX, raw,
\* ETX, checksum.
C27_UnknownKeysFallBack ==
    (FormatReturned /\ ActionOf(call.arg) = "play") =>
        LET c == call.arg
            sys == IF Has(c, "system") /\ c.system \in {"lung", "heart", "bowel"}
                   THEN SYSTEM_CODES[c.system] ELSE <<85>>
            loc == IF Has(c, "location") /\ c.location \in DOMAIN LOCATION_CODES
                   THEN LOCATION_CODES[c.location] ELSE <<85, 78, 75>>
            raw == <<80, 58>> \o sys \o <<58>> \o SoundCodeOf(c) \o <<58>>
                     \o loc \o <<58>> \o NumberText(ClampedVolume(c))
        IN  /\ Cardinality(DOMAIN LOCATION_CODES) = 21
            /\ call.result.raw = raw
            /\ call.result.bytes = <<2>> \o raw \o <<3, call.result.checksum>>

\* C28: every element of the bytes formatCommand returns is in 0..255, for
\* every command, a soundCode with code units above 255 included.
C28_BytesAreOctets ==
    FormatReturned =>
        \A i \in 1..Len(call.result.bytes) : call.result.bytes[i] \in 0..255

(***************************************************************************)
(* The read loop and the device status inside the transport, checked       *)
(* under Spec                                                              *)
(***************************************************************************)
\* C31: when disconnect() is called while a read is pending, the read is
\* unblocked and the loop leaves in that step, without another read; from
\* then on a received message comes only from a loop that is running, and a
\* loop runs again on that port only when a later connect() has opened it
\* anew: nothing is received for the connection torn down.
C31_CancelStopsReadLoop ==
    [][/\ (/\ last'.op = "disconnect" /\ disconnectPc = "idle"
           /\ readerRef \in readLoops) => readerRef \notin readLoops'
       /\ (disconnectPc' = "cancel") => disconnectOn' \notin readLoops'
       /\ (\/ Len(logs') > Len(logs) /\ logs'[Len(logs')].message = "received"
           \/ deviceStatus'.lastResponse # deviceStatus.lastResponse
                /\ deviceStatus'.hasResponse)
             => \E p \in readLoops : p \in readLoops' /\ last'.op = "readLoop.read"
       /\ \A p \in readLoops' \ readLoops :
             last'.op = "connect.open" /\ portState[p] = "opening"]_vars

\* disconnect() has been called on a connected device whose read was
\* pending: the loop has gone while the reader is still locked
C31_Witness ==
    /\ disconnectPc = "cancel"
    /\ last = Step("disconnect", "pending")
    /\ disconnectOn \in readerLock
    /\ disconnectOn \notin readLoops
    /\ isConnected

\* C32: the read loop leaves, and does not start again, in three cases: at
\* the end of the stream without a disconnect() it appends one log entry, on
\* a read error it appends one log entry, and on the cancel of disconnect()
\* it appends none.
C32_ReadLoopExitLogging ==
    [][/\ (last'.op = "readLoop.read" /\ last'.ret = "done")
             => /\ Appended = 1
                /\ Cardinality(readLoops') = Cardinality(readLoops) - 1
       /\ (last'.op = "readLoop.read" /\ last'.ret \in ReadErrorNames)
             => /\ Appended = 1
                /\ Cardinality(readLoops') = Cardinality(readLoops) - 1
       /\ (/\ last'.op = "disconnect" /\ disconnectPc = "idle"
           /\ readerRef \in readLoops)
             => /\ Appended = 0
                /\ readerRef \notin readLoops']_vars

\* C33: a read that brings a complete message logs it as received, sets
\* lastResponse to the trimmed message and sets lastCommandTime.
C33_MessageUpdatesStatus ==
    [][(last'.op = "readLoop.read" /\ last'.ret = "chunk" /\ Received > 0) =>
          /\ Appended = Received
          /\ logs'[Len(logs')].message = "received"
          /\ deviceStatus'.hasResponse
          /\ deviceStatus'.lastResponse = logs'[Len(logs')].data
          /\ deviceStatus'.lastCommandTime # "null"]_vars

\* a connect() is between its call and its return, or a disconnect() is
InProgress ==
    \/ \E c \in ConnectCalls : connectPc[c] # "idle"
    \/ disconnectPc # "idle"

\* C34: when no connect() and no disconnect() is in progress,
\* deviceStatus.connected is true exactly in state Connected, and so is
\* portName non-null; and a disconnect() that succeeds leaves lastResponse
\* and lastCommandTime null.
C34_StatusIsProjection ==
    [][/\ ~InProgress' =>
             /\ deviceStatus'.connected <=> (ConnectionState' = "Connected")
             /\ (deviceStatus'.portName # "null") <=> (ConnectionState' = "Connected")
       /\ (last'.op = "disconnect" /\ last'.ret = "done") =>
             /\ ~deviceStatus'.hasResponse
             /\ deviceStatus'.lastResponse = <<>>
             /\ deviceStatus'.lastCommandTime = "null"]_vars

\* a device is connected and has answered, and nothing is in progress
C34_Witness ==
    /\ ~InProgress
    /\ ConnectionState = "Connected"
    /\ deviceStatus.connected
    /\ deviceStatus.portName = "Arduino Device"
    /\ deviceStatus.hasResponse

\* C37: a sendCommand whose formatting call returns while a disconnect() is
\* under way hands nothing to the writer: it calls writer.write only when no
\* teardown has started.
C37_NoWriteDuringTeardown ==
    [][(last'.op = "sendCommand.sendBytes" /\ last'.ret = "pending")
          => disconnectPc = "idle"]_vars

(***************************************************************************)
(* The volume field, checked under SpecEnc                                 *)
(***************************************************************************)
\* C35: in play and volume commands a supplied volume of 0 is encoded as 5,
\* like a missing one, and the volume field of raw is 0 only for a supplied
\* volume below 0.
C35_ZeroVolumeIsFive ==
    (FormatReturned /\ ActionOf(call.arg) \in {"play", "volume"}) =>
        LET field == LastField(call.result.raw)
        IN  /\ (Has(call.arg, "volume") /\ call.arg.volume = 0) => field = <<53>>
            /\ ~Has(call.arg, "volume") => field = <<53>>
            /\ field = <<48>> => (Has(call.arg, "volume") /\ call.arg.volume < 0)

\* a volume command with volume 0 has been encoded as "V:5"
C35_Witness ==
    /\ FormatReturned
    /\ ActionOf(call.arg) = "volume"
    /\ Has(call.arg, "volume") /\ call.arg.volume = 0
    /\ call.result.raw = <<86, 58, 53>>

(***************************************************************************)
(* Overlapping sends, checked under SpecSend                               *)
(***************************************************************************)
\* the frame of a command: STX, raw, ETX, checksum
FrameOf(command) ==
    LET raw == formatCommand(command).raw
    IN  <<2>> \o raw \o <<3, CodeSum(raw) % 256>>

\* the send calls other than s that are under way
Overlapping(s) == {t \in SendCalls \ {s} : sends[t].pc # "idle"}

\* C36: when a sendCommand writes while another send call is under way, the
\* step puts its whole frame on the wire as one write, on the writer it took,
\* and nothing else: the frames of overlapping calls follow one another
\* whole, never byte among byte.
C36_FramesNotInterleaved ==
    [][\A s \in SendCalls :
          (/\ sends[s].pc = "write" /\ sends[s].kind = "sendCommand"
           /\ sends'[s].pc = "idle"
           /\ last'.op = "sendCommand.write" /\ last'.ret = "true"
           /\ Overlapping(s) # {}) =>
              /\ Len(written') = 1
              /\ written'[1].port = sends[s].writer
              /\ written'[1].data = FrameOf(sends[s].command)
              /\ \A t \in Overlapping(s) : sends'[t] = sends[t]]_vars

\* the first of two overlapping sendCommand calls has written its frame while
\* the second still waits for its write
C36_Witness ==
    /\ last = Step("sendCommand.write", "true")
    /\ Len(written) = 1
    /\ written[1].data = <<2, 83, 3, 83>>
    /\ \E t \in SendCalls :
          /\ sends[t].pc = "write" /\ sends[t].kind = "sendCommand"
          /\ sends[t].queued /\ sends[t].writer = written[1].port

(***************************************************************************)
(* The carry-over, checked under SpecReassembly and SpecReconnect          *)
(***************************************************************************)
\* C38: after every iteration of the read loop the carry-over holds neither
\* a newline nor an ETX.
C38_CarryOverHasNoTerminator ==
    (call.fn = "readLoop" /\ call.count > 0) =>
        \A i \in 1..Len(call.buffer) : call.buffer[i] \notin {10, 3}

\* an iteration has met a terminator and has kept the text after it
C38_Witness ==
    /\ call.fn = "readLoop" /\ call.count = 1
    /\ call.fed = <<65, 10, 65, 32>>
    /\ call.buffer = <<65, 32>>

\* C39: the read loop of a connection begins with an empty carry-over: what
\* it emits and carries is what the bytes of its own connection give, whatever
\* the connection before it left unterminated.
C39_CarryOverPerConnection ==
    (call.fn = "readLoop" /\ "previous" \in DOMAIN call) =>
        /\ call.count = 0 => call.buffer = <<>>
        /\ call.emitted = InOneChunk(call.fed).emitted
        /\ call.buffer = InOneChunk(call.fed).buffer

\* the first connection ended on the unterminated "A"; the second has
\* received "A\n" and has emitted "A", not "AA"
C39_Witness ==
    /\ call.fn = "readLoop" /\ "previous" \in DOMAIN call
    /\ call.previous = <<65>>
    /\ call.chunks = <<>> /\ call.fed = <<65, 10>>
    /\ call.emitted = <<<<65>>>>

====
